---- MODULE Spec2Model ----
(***************************************************************************)
(* State-machine model of the HLS variant generation pipeline              *)
(* (videoProcessor.js: createM3U8, createM3U8WithFastStart, processVideo,  *)
(* processVideosOnStartup) and of the server start (index.js: startServer).*)
(*                                                                         *)
(* File names are sequences of one-character strings so that path.extname, *)
(* path.parse(..).name, toLowerCase and the `${baseName}_${suffix}` join   *)
(* are computed as the code computes them.  Durations are in milliseconds  *)
(* (0.5 s = 500).  A playlist is a sequence of lines; a line is a record   *)
(* [k |-> tag, v |-> number].                                              *)
(***************************************************************************)
EXTENDS Integers, Sequences, FiniteSets, TLC

\* ------------------------------------------------------------------ bounds
\* process starts explored (the first start and the restarts after it)
MaxRuns == 2
\* lines of a remainder playlist handed to the synthesis taken alone
MaxLines == 4

\* ------------------------------------------------------- names and paths
mp4 == <<".", "m", "p", "4">>
MOV == <<".", "M", "O", "V">>
mov == <<".", "m", "o", "v">>
txt == <<".", "t", "x", "t">>

\* String.prototype.toLowerCase on the characters the model uses
LowerChar(c) ==
    CASE c = "M" -> "m"
      [] c = "O" -> "o"
      [] c = "V" -> "v"
      [] OTHER -> c

toLowerCase(s) == [i \in DOMAIN s |-> LowerChar(s[i])]

\* index of the last "." of s, 0 when there is none
LastDot(s) ==
    IF \E i \in DOMAIN s : s[i] = "."
    THEN CHOOSE i \in DOMAIN s : s[i] = "." /\ \A j \in DOMAIN s : s[j] = "." => j <= i
    ELSE 0

\* path.extname: from the last "." on; "" when there is none or it leads the name
extname(s) == IF LastDot(s) <= 1 THEN <<>> ELSE SubSeq(s, LastDot(s), Len(s))

\* path.parse(videoName).name: the name without its extension
parseName(s) == IF LastDot(s) <= 1 THEN s ELSE SubSeq(s, 1, LastDot(s) - 1)

\* --------------------------------------------------------- variant catalog
\* the catalog with the two 4-second entries in the other order
segmentVariantsFastFirst ==
    << [duration |-> 500,   suffix |-> <<"5", "0", "0", "m", "s">>, fastStart |-> FALSE],
       [duration |-> 500,   suffix |-> <<"5", "0", "0", "m", "s", "_", "f", "a", "s", "t">>, fastStart |-> TRUE],
       [duration |-> 1000,  suffix |-> <<"1", "s">>, fastStart |-> FALSE],
       [duration |-> 1000,  suffix |-> <<"1", "s", "_", "f", "a", "s", "t">>, fastStart |-> TRUE],
       [duration |-> 4000,  suffix |-> <<"4", "s", "_", "f", "a", "s", "t">>, fastStart |-> TRUE],
       [duration |-> 4000,  suffix |-> <<"4", "s">>, fastStart |-> FALSE],
       [duration |-> 8000,  suffix |-> <<"8", "s">>, fastStart |-> FALSE],
       [duration |-> 8000,  suffix |-> <<"8", "s", "_", "f", "a", "s", "t">>, fastStart |-> TRUE],
       [duration |-> 12000, suffix |-> <<"1", "2", "s">>, fastStart |-> FALSE],
       [duration |-> 12000, suffix |-> <<"1", "2", "s", "_", "f", "a", "s", "t">>, fastStart |-> TRUE] >>

\* const segmentVariants = [...]
segmentVariants ==
    << [duration |-> 500,   suffix |-> <<"5", "0", "0", "m", "s">>, fastStart |-> FALSE],
       [duration |-> 500,   suffix |-> <<"5", "0", "0", "m", "s", "_", "f", "a", "s", "t">>, fastStart |-> TRUE],
       [duration |-> 1000,  suffix |-> <<"1", "s">>, fastStart |-> FALSE],
       [duration |-> 1000,  suffix |-> <<"1", "s", "_", "f", "a", "s", "t">>, fastStart |-> TRUE],
       [duration |-> 4000,  suffix |-> <<"4", "s">>, fastStart |-> FALSE],
       [duration |-> 4000,  suffix |-> <<"4", "s", "_", "f", "a", "s", "t">>, fastStart |-> TRUE],
       [duration |-> 8000,  suffix |-> <<"8", "s">>, fastStart |-> FALSE],
       [duration |-> 8000,  suffix |-> <<"8", "s", "_", "f", "a", "s", "t">>, fastStart |-> TRUE],
       [duration |-> 12000, suffix |-> <<"1", "2", "s">>, fastStart |-> FALSE],
       [duration |-> 12000, suffix |-> <<"1", "2", "s", "_", "f", "a", "s", "t">>, fastStart |-> TRUE] >>

NumVariants == Len(segmentVariants)

\* path.join(uploadsDir, `${baseName}_${variant.suffix}`), relative to the root
outputDirOf(baseName, variant) == baseName \o <<"_">> \o variant.suffix

\* Math.ceil(segmentDuration), the duration being in milliseconds
CeilSeconds(ms) == (ms + 999) \div 1000

\* segmentDuration.toFixed(6): the value in millionths, as the six-decimal text
\* "0.500000" of #EXTINF denotes it (the engine prints its durations the same way)
toFixed6(ms) == ms * 1000

\* ------------------------------------------------------------- playlists
Line(k, v) == [k |-> k, v |-> v]

\* line.startsWith('#EXTINF:')
IsExtinf(line) == line.k = "EXTINF"

\* line.startsWith('segment')
IsSegmentUri(line) == line.k = "segment"

NoPlaylist == [type |-> "none", lines |-> <<>>]
PlaylistFile(lines) == [type |-> "file", lines |-> lines]

\* a probe that looks at a path where no file is ever written
existsSyncWrongPath(pl) == FALSE

\* fsSync.existsSync(playlistPath)
existsSync(pl) == pl.type # "none"

\* --------------------------------------------- the transcoding engine (ffmpeg)
\* Number of segments the HLS muxer cuts from [offset, len) with -hls_time d
SegCount(len, offset, d) ==
    IF len <= offset THEN 0 ELSE (len - offset + d - 1) \div d

\* Duration of the i-th segment (1-based) cut from [offset, len)
SegDuration(len, offset, d, i) ==
    IF len - offset - (i - 1) * d < d THEN len - offset - (i - 1) * d ELSE d

\* The (#EXTINF, URI) pairs of the first n segments, numbered from startNumber
RECURSIVE SegmentPairs(_, _, _, _, _)
SegmentPairs(len, offset, d, startNumber, n) ==
    IF n = 0 THEN <<>>
    ELSE SegmentPairs(len, offset, d, startNumber, n - 1)
         \o << Line("EXTINF", toFixed6(SegDuration(len, offset, d, n))),
               Line("segment", startNumber + n - 1) >>

\* The longest of the first n segments cut from [offset, len): the first one
LongestSegment(len, offset, d, n) ==
    IF n = 0 THEN 0 ELSE SegDuration(len, offset, d, 1)

\* '-f hls', '-hls_time d', '-hls_list_size 0', '-start_number n': the playlist
\* the engine leaves when it ends (every segment listed, end-list tag last).
\* The engine derives its target duration from the segments it cut, not from
\* -hls_time.
HlsPlaylist(len, offset, d, startNumber) ==
    << Line("EXTM3U", 0), Line("VERSION", 3),
       Line("TARGETDURATION",
            CeilSeconds(LongestSegment(len, offset, d, SegCount(len, offset, d)))),
       Line("MEDIASEQ", startNumber) >>
    \o SegmentPairs(len, offset, d, startNumber, SegCount(len, offset, d))
    \o << Line("ENDLIST", 0) >>

\* the segment files the engine leaves when it ends
HlsSegments(len, offset, d, startNumber) ==
    { startNumber + i - 1 : i \in 1..SegCount(len, offset, d) }

\* The playlist the engine has written once it listed the first k segments: the
\* muxer rewrites the playlist as it goes and adds the end-list tag only when
\* it finishes.
HlsPartialPlaylist(len, offset, d, startNumber, k) ==
    << Line("EXTM3U", 0), Line("VERSION", 3),
       Line("TARGETDURATION", CeilSeconds(LongestSegment(len, offset, d, k))),
       Line("MEDIASEQ", startNumber) >>
    \o SegmentPairs(len, offset, d, startNumber, k)

\* --------------------------------------------------- playlist synthesis
\* for (const line of lines) { if (line.startsWith('#EXTINF:')) addSegments = true;
\*   if (addSegments && (startsWith('#EXTINF:') || startsWith('segment'))) push }
RECURSIVE CollectFrom(_, _, _)
CollectFrom(lines, i, addSegments) ==
    IF i > Len(lines) THEN <<>>
    ELSE LET add == addSegments \/ IsExtinf(lines[i])
         IN  (IF add /\ (IsExtinf(lines[i]) \/ IsSegmentUri(lines[i]))
              THEN << lines[i] >> ELSE <<>>)
             \o CollectFrom(lines, i + 1, add)

\* the filter without the addSegments flag
CollectAnywhere(lines) ==
    SelectSeq(lines, LAMBDA l : IsExtinf(l) \/ IsSegmentUri(l))

\* the flag without the filter: every line from the first duration tag on
CollectAllAfterFirst(lines) ==
    IF \E i \in DOMAIN lines : IsExtinf(lines[i])
    THEN SubSeq(lines,
                CHOOSE i \in DOMAIN lines :
                    IsExtinf(lines[i]) /\ \A k \in 1..(i - 1) : ~IsExtinf(lines[k]),
                Len(lines))
    ELSE <<>>

\* the filter with the segment-URI test left out
CollectExtinfOnly(lines) == SelectSeq(lines, IsExtinf)

CollectRemainder(lines) == CollectFrom(lines, 1, FALSE)

\* a synthesis that copies the four header lines of the remainder playlist
SynthesizePlaylistKeepHeader(lines, segmentDuration) ==
    SubSeq(lines, 1, 4)
    \o << Line("EXTINF", toFixed6(segmentDuration)), Line("segment", 0) >>
    \o CollectFrom(lines, 1, FALSE)
    \o << Line("ENDLIST", 0) >>

\* newPlaylist: header, lead-in pair, collected remainder lines, end-list tag
SynthesizePlaylist(lines, segmentDuration) ==
    << Line("EXTM3U", 0), Line("VERSION", 3),
       Line("TARGETDURATION", CeilSeconds(segmentDuration)), Line("MEDIASEQ", 0),
       Line("EXTINF", toFixed6(segmentDuration)), Line("segment", 0) >>
    \o CollectRemainder(lines)
    \o << Line("ENDLIST", 0) >>

\* the segment numbers a playlist lists, in order
Uris(lines) ==
    LET uriLines == SelectSeq(lines, IsSegmentUri)
    IN  [i \in DOMAIN uriLines |-> uriLines[i].v]

\* ------------------------------------------------------------ filesystem
\* An entry of the uploads root: a regular file, or a directory with the
\* segment files (by number) and the playlist.m3u8 it holds
Absent == [kind |-> "absent", segs |-> {}, playlist |-> NoPlaylist]
RegularFile == [kind |-> "file", segs |-> {}, playlist |-> NoPlaylist]
Directory(segs, playlist) == [kind |-> "dir", segs |-> segs, playlist |-> playlist]

aMp4 == <<"a">> \o mp4
aMov == <<"a">> \o mov
bMOV == <<"b">> \o MOV
cMp4 == <<"c">> \o mp4
nTxt == <<"n">> \o txt
eAvi == <<"e", ".", "a", "v", "i">>
eMkv == <<"e", ".", "m", "k", "v">>
eWebm == <<"e", ".", "w", "e", "b", "m">>
eFlv == <<"e", ".", "f", "l", "v">>
eWmv == <<"e", ".", "w", "m", "v">>

\* the characters of the names, in the order of their byte values
ByteOrder ==
    << ".", "0", "1", "2", "3", "4", "5", "6", "7", "8", "9",
       "A", "B", "C", "D", "E", "F", "G", "H", "I", "J", "K", "L", "M",
       "N", "O", "P", "Q", "R", "S", "T", "U", "V", "W", "X", "Y", "Z", "_",
       "a", "b", "c", "d", "e", "f", "g", "h", "i", "j", "k", "l", "m",
       "n", "o", "p", "q", "r", "s", "t", "u", "v", "w", "x", "y", "z" >>

CharCode(c) == CHOOSE i \in DOMAIN ByteOrder : ByteOrder[i] = c

\* name s comes before name t when the names are compared byte by byte
ByteLess(s, t) ==
    \E i \in 1..(Len(t)) :
        /\ \A k \in 1..(i - 1) : k <= Len(s) /\ s[k] = t[k]
        /\ \/ i = Len(s) + 1
           \/ i <= Len(s) /\ CharCode(s[i]) < CharCode(t[i])

\* the names of a set in the order fs.readdir lists them: sorted by byte value
SortNames(S) ==
    [i \in 1..Cardinality(S) |->
        CHOOSE n \in S : Cardinality({ m \in S : ByteLess(m, n) }) = i - 1]

\* the order in which fs.readdir lists the source entries
SourceOrder == << aMov, aMp4, bMOV, cMp4, eAvi, eFlv, eMkv, eWebm, eWmv, nTxt >>

BaseOrder == << <<"a">>, <<"b">>, <<"c">>, <<"n">>, <<"e">> >>

OutOrder ==
    [k \in 1..(Len(BaseOrder) * NumVariants) |->
        outputDirOf(BaseOrder[((k - 1) \div NumVariants) + 1],
                    segmentVariants[((k - 1) % NumVariants) + 1])]

AllNames ==
    { SourceOrder[i] : i \in DOMAIN SourceOrder } \cup { OutOrder[i] : i \in DOMAIN OutOrder }

\* every name of the model in the order fs.readdir lists them
AllNamesSeq == SortNames(AllNames)

\* playing time of a source video, in milliseconds
VideoLength(name) == IF name = bMOV THEN 2100 ELSE 1800

\* distance between the key frames of a source video, in milliseconds: b.MOV
\* has its only key frame at the start
KeyInterval(name) == IF name = bMOV THEN 10000 ELSE 500

\* '-codec: copy' with '-hls_time d': the muxer cuts at the first key frame of
\* the source at or after d, so at the multiples of the key-frame distance
CutInterval(gop, d) == ((d + gop - 1) \div gop) * gop

\* await fs.readdir(uploadsDir)
readdir(r) == SelectSeq(AllNamesSeq, LAMBDA n : r[n].kind # "absent")

\* const videoExtensions = ['.mp4', '.avi', '.mov', '.mkv', '.webm', '.flv', '.wmv']
videoExtensions ==
    { mp4, mov, <<".", "a", "v", "i">>, <<".", "m", "k", "v">>,
      <<".", "w", "e", "b", "m">>, <<".", "f", "l", "v">>, <<".", "w", "m", "v">> }

\* a filter that also takes every directory of the root
IsVideoFileOrDirectory(r, file) ==
    \/ r[file].kind = "dir"
    \/ r[file].kind = "file" /\ toLowerCase(extname(file)) \in videoExtensions

\* the filter without the statSync(fullPath).isFile() test
IsVideoFileNoStat(r, file) == toLowerCase(extname(file)) \in videoExtensions

\* files.filter(file => isFile && videoExtensions.includes(ext))
IsVideoFile(r, file) ==
    /\ r[file].kind = "file"
    /\ toLowerCase(extname(file)) \in videoExtensions

ScanVideoFiles(r) == SelectSeq(readdir(r), LAMBDA file : IsVideoFile(r, file))

\* if (!fsSync.existsSync(outputDir)) fsSync.mkdirSync(outputDir, { recursive: true })
mkdirIfAbsent(r, dir) ==
    [r EXCEPT ![dir] = IF @.kind = "absent" THEN Directory({}, NoPlaylist) ELSE @]

\* uploads roots the pipeline is started on
EmptyRoot == [n \in AllNames |-> Absent]

WithFiles(files) == [n \in AllNames |-> IF n \in files THEN RegularFile ELSE Absent]

aDir(j) == outputDirOf(<<"a">>, segmentVariants[j])

\* a.mp4 with variant 500ms complete, 500ms_fast left with its lead-in segment
\* only, and 1s left as an empty directory
PartialRoot ==
    [WithFiles({aMp4}) EXCEPT
        ![aDir(1)] = Directory(HlsSegments(VideoLength(aMp4), 0, 500, 0),
                               PlaylistFile(HlsPlaylist(VideoLength(aMp4), 0, 500, 0))),
        ![aDir(2)] = Directory({0}, NoPlaylist),
        ![aDir(3)] = Directory({}, NoPlaylist)]

\* a.mp4 with a directory where the playlist of variant 500ms is expected
PlaylistDir == [type |-> "dir", lines |-> <<>>]

DirPlaylistRoot ==
    [WithFiles({aMp4}) EXCEPT ![aDir(1)] = Directory({}, PlaylistDir)]

\* what a successful build of variant j leaves for a source video
CompleteEntry(name, j) ==
    LET d == segmentVariants[j].duration
        len == VideoLength(name)
        cut == CutInterval(KeyInterval(name), d)
    IN  IF segmentVariants[j].fastStart
        THEN Directory({0} \cup HlsSegments(len, d, cut, 1),
                       PlaylistFile(SynthesizePlaylist(HlsPlaylist(len, d, cut, 1), d)))
        ELSE Directory(HlsSegments(len, 0, cut, 0), PlaylistFile(HlsPlaylist(len, 0, cut, 0)))

eDir(j) == outputDirOf(<<"e">>, segmentVariants[j])

\* five videos of base name e, one per remaining extension, every variant built
CompleteRoot ==
    [n \in AllNames |->
        IF n \in {eAvi, eMkv, eWebm, eFlv, eWmv} THEN RegularFile
        ELSE IF \E j \in 1..NumVariants : n = eDir(j)
             THEN CompleteEntry(eAvi, CHOOSE j \in 1..NumVariants : n = eDir(j))
             ELSE Absent]

\* the remainder playlists the builds of CompleteRoot's fast-start variants ended with
CompleteRemainders ==
    [n \in AllNames |->
        IF \E j \in 1..NumVariants : n = eDir(j) /\ segmentVariants[j].fastStart
        THEN LET j == CHOOSE k \in 1..NumVariants : n = eDir(k)
             IN  HlsPlaylist(VideoLength(eAvi), segmentVariants[j].duration,
                             segmentVariants[j].duration, 1)
        ELSE <<>>]

NoRemainders == [n \in AllNames |-> <<>>]

InitialRoots ==
    { [exists |-> FALSE, entries |-> EmptyRoot, remainders |-> NoRemainders],
      [exists |-> TRUE,  entries |-> WithFiles({nTxt}), remainders |-> NoRemainders],
      [exists |-> TRUE,  entries |-> WithFiles({aMp4}), remainders |-> NoRemainders],
      [exists |-> TRUE,  entries |-> WithFiles({aMp4, aMov}), remainders |-> NoRemainders],
      [exists |-> TRUE,  entries |-> [WithFiles({aMp4, bMOV, nTxt}) EXCEPT
                                         ![cMp4] = Directory({}, NoPlaylist)],
       remainders |-> NoRemainders],
      [exists |-> TRUE,  entries |-> PartialRoot, remainders |-> NoRemainders],
      [exists |-> TRUE,  entries |-> DirPlaylistRoot, remainders |-> NoRemainders],
      [exists |-> TRUE,  entries |-> CompleteRoot, remainders |-> CompleteRemainders] }

\* ------------------------------------------------------------------ state
VARIABLES
    rootExists,   \* the uploads directory exists
    root,         \* entries of the uploads directory, by name
    proc,         \* the server process: starting, pipeline, listening, exited
    exitCode,     \* code passed to process.exit, 0 while none
    pc,           \* where the pipeline stands
    videoFiles,   \* the scanner's result of this run
    vi,           \* index of the asset being processed (for ... of videoFiles)
    vj,           \* index of the variant being processed (for ... of segmentVariants)
    engine,       \* the transcoding-engine invocation last started
    error,        \* the error the pipeline failed with
    fault,        \* the failure (engine error, playlist read/write error) of this run
    runs,         \* process starts so far
    pipelineRuns, \* calls of processVideosOnStartup by this process
    inflight,     \* engine processes started and not yet exited
    invocations,  \* engine invocations started in this run
    buildLog,     \* steps of the build last started, in order
    completed,    \* output directories whose build returned success
    remainderOut, \* per directory, the playlist its last remainder encode ended with
    prevOk,       \* the previous run of this uploads root returned success
    response,     \* the last response of the listing API
    scanned,      \* the directories that held a playlist when this run scanned
    synth,        \* a playlist synthesis taken alone: its input and its result
    trial         \* processVideo taken alone, with and without its pre-check

vars == << rootExists, root, proc, exitCode, pc, videoFiles, vi, vj, engine, error,
           fault, runs, pipelineRuns, inflight, invocations, buildLog, completed,
           remainderOut, prevOk, response, scanned, synth, trial >>

NoResponse == [status |-> 0, kind |-> "none", videos |-> <<>>]
NoSynth == [phase |-> "none", lines |-> <<>>, d |-> 0, out |-> <<>>]
NoOutcome == [builds |-> <<>>, fs |-> <<>>, threw |-> FALSE]
NoTrial == [phase |-> "none", have |-> {}, failAt |-> 0, with |-> NoOutcome, alone |-> NoOutcome]

NoEngine == [status |-> "none", kind |-> "none", dir |-> <<>>, len |-> 0, d |-> 0, gop |-> 0,
             n |-> 0, listed |-> 0]
NoError == [step |-> "none", dir |-> <<>>]
NoFault == [step |-> "none", dir |-> <<>>, inv |-> 0]

videoFile == videoFiles[vi]
baseName == parseName(videoFile)
variant == segmentVariants[vj]
outputDir == outputDirOf(baseName, variant)

Init ==
    /\ \E r \in InitialRoots :
          rootExists = r.exists /\ root = r.entries /\ remainderOut = r.remainders
    /\ proc = "starting"
    /\ exitCode = 0
    /\ pc = "idle"
    /\ videoFiles = <<>>
    /\ vi = 1
    /\ vj = 1
    /\ engine = NoEngine
    /\ error = NoError
    /\ fault = NoFault
    /\ runs = 1
    /\ pipelineRuns = 0
    /\ inflight = 0
    /\ invocations = 0
    /\ buildLog = <<>>
    /\ completed = { n \in AllNames : existsSync(root[n].playlist) }
    /\ prevOk = FALSE
    /\ response = NoResponse
    /\ scanned = {}
    /\ synth = NoSynth
    /\ trial = NoTrial

\* ------------------------------------------------------ the engine process
\* ffmpeg(...).run(): a new engine process
Invoke(kind, dir, len, d) ==
    /\ engine' = [status |-> "running", kind |-> kind, dir |-> dir, len |-> len, d |-> d,
                  gop |-> KeyInterval(videoFile), n |-> 0, listed |-> 0]
    /\ inflight' = inflight + 1
    /\ invocations' = invocations + 1

\* what an invocation has written when it ends
EngineOutput(e, entry) ==
    CASE e.kind = "hls" ->
            Directory(entry.segs \cup HlsSegments(e.len, 0, CutInterval(e.gop, e.d), 0),
                      PlaylistFile(HlsPlaylist(e.len, 0, CutInterval(e.gop, e.d), 0)))
      [] e.kind = "remainder" ->
            Directory(entry.segs \cup HlsSegments(e.len, e.d, CutInterval(e.gop, e.d), 1),
                      PlaylistFile(HlsPlaylist(e.len, e.d, CutInterval(e.gop, e.d), 1)))
      [] OTHER -> Directory(entry.segs \cup {0}, entry.playlist)

\* '-ss d' of the remainder encode: where in the source the invocation starts
EngineOffset(e) == IF e.kind = "remainder" THEN e.d ELSE 0

\* '-start_number 1' of the remainder encode: the number of its first segment
EngineStart(e) == IF e.kind = "remainder" THEN 1 ELSE 0

\* the number of segment files the invocation writes: the lead-in encode
\* ('-t d', one output file) writes segment000.ts only
EngineSegCount(e) ==
    IF e.kind = "leadin" THEN 1
    ELSE SegCount(e.len, EngineOffset(e), CutInterval(e.gop, e.d))

\* The running engine process writes its next segment file. The program hands
\* the engine its options and waits for 'end' or 'error': the order in which
\* the engine writes a segment file and lists it in the playlist is not fixed
\* by the program, so a segment's file and its playlist entry appear in
\* either order, one segment at a time.
EngineWriteSegment ==
    /\ engine.status = "running"
    /\ engine.n < EngineSegCount(engine)
    /\ engine.n <= engine.listed
    /\ root' = [root EXCEPT ![engine.dir].segs = @ \cup {EngineStart(engine) + engine.n}]
    /\ engine' = [engine EXCEPT !.n = @ + 1]
    /\ UNCHANGED << trial, response, scanned, synth, rootExists, proc, exitCode, pc, videoFiles, vi, vj, error, fault, runs,
                    pipelineRuns, inflight, invocations, buildLog, completed, remainderOut, prevOk >>

\* The running engine process rewrites the playlist at the output path with one
\* more segment listed (the HLS invocations only; the lead-in encode writes no
\* playlist).
EngineWritePlaylist ==
    /\ engine.status = "running"
    /\ engine.kind \in {"hls", "remainder"}
    /\ engine.listed < EngineSegCount(engine)
    /\ engine.listed <= engine.n
    /\ root' = [root EXCEPT ![engine.dir].playlist =
                   PlaylistFile(HlsPartialPlaylist(engine.len, EngineOffset(engine),
                                                   CutInterval(engine.gop, engine.d),
                                                   EngineStart(engine), engine.listed + 1))]
    /\ engine' = [engine EXCEPT !.listed = @ + 1]
    /\ UNCHANGED << trial, response, scanned, synth, rootExists, proc, exitCode, pc, videoFiles, vi, vj, error, fault, runs,
                    pipelineRuns, inflight, invocations, buildLog, completed, remainderOut, prevOk >>

\* The engine process, its segment files written, writes the finished playlist
\* and exits; 'end' is emitted.
EngineEnd ==
    /\ engine.status = "running"
    /\ engine.n = EngineSegCount(engine)
    /\ root' = [root EXCEPT ![engine.dir] = EngineOutput(engine, @)]
    /\ engine' = [engine EXCEPT !.status = "end"]
    /\ inflight' = inflight - 1
    /\ UNCHANGED << trial, response, scanned, synth, rootExists, proc, exitCode, pc, videoFiles, vi, vj, error, fault, runs,
                    pipelineRuns, invocations, buildLog, completed, remainderOut, prevOk >>

\* The engine process fails wherever it stands; what it has written stays as it
\* is; 'error' is emitted.
EngineError ==
    /\ engine.status = "running"
    /\ engine' = [engine EXCEPT !.status = "error"]
    /\ fault' = [step |-> engine.kind, dir |-> engine.dir, inv |-> invocations]
    /\ inflight' = inflight - 1
    /\ UNCHANGED << trial, response, scanned, synth, rootExists, root, proc, exitCode, pc, videoFiles, vi, vj, error, runs,
                    pipelineRuns, invocations, buildLog, completed, remainderOut, prevOk >>

\* ------------------------------------------------------------ the pipeline
\* the next step started without awaiting the invocation
ResolvedWithoutAwait(e) == e.status \in {"running", "end"}

\* an 'error' handler that resolves instead of rejecting
ResolvedOnError(e) == e.status \in {"end", "error"}

\* .on('end', () => resolve()): the awaiting code continues once the engine ended
Resolved(e) == e.status = "end"

\* an invocation without an 'error' handler: the awaiting code is never resumed
RejectedNever(e) == FALSE

\* .on('error', (err) => reject(err))
Rejected(e) == e.status = "error"

\* a probe that also takes the lead-in segment for completion
ProbeSegmentToo(r, dir) == existsSync(r[dir].playlist) \/ 0 \in r[dir].segs

\* the filesystem as the run saw it when it scanned: the entries of now with
\* the playlists of then
FsAtScan ==
    [n \in AllNames |->
        IF n \in scanned THEN root[n] ELSE [root[n] EXCEPT !.playlist = NoPlaylist]]

\* fsSync.existsSync reads the filesystem at the time of the call
FsNow == root

\* if (!fsSync.existsSync(playlistPath)): the completion probe of one variant
Probe(r, dir) == existsSync(r[dir].playlist)

\* a pre-check that is satisfied by one existing variant
AnyExist(r, base) ==
    \E j \in 1..NumVariants : existsSync(r[outputDirOf(base, segmentVariants[j])].playlist)

\* let allExist = true; for (...) if (!existsSync(playlistPath)) { allExist = false; break }
AllExist(r, base) ==
    \A j \in 1..NumVariants : existsSync(r[outputDirOf(base, segmentVariants[j])].playlist)

\* a catch block that logs the error and goes on with the next variant
processVideoCatchSwallow(e) == [pc |-> "variant", error |-> NoError, vj |-> vj + 1]

\* catch (error) { console.error(...); throw error } of processVideo and of
\* processVideosOnStartup: the loops are left and the error is passed on
processVideoCatch(e) == [pc |-> "failed", error |-> e, vj |-> vj]

Throw(e) ==
    LET c == processVideoCatch(e)
    IN  /\ pc' = c.pc
        /\ error' = c.error
        /\ vj' = c.vj

\* startServer calls processVideosOnStartup
StartServer ==
    /\ proc = "starting"
    /\ proc' = "pipeline"
    /\ pc' = "startup"
    /\ pipelineRuns' = pipelineRuns + 1
    /\ UNCHANGED << trial, response, scanned, synth, rootExists, root, exitCode, videoFiles, vi, vj, engine, error, fault,
                    runs, inflight, invocations, buildLog, completed, remainderOut, prevOk >>

\* the early return without the fs.mkdir call
CreateUploadsDirNoMkdir ==
    /\ proc = "pipeline"
    /\ pc = "startup"
    /\ ~rootExists
    /\ pc' = "done"
    /\ UNCHANGED << trial, response, scanned, synth, rootExists, root, proc, exitCode, videoFiles,
                    vi, vj, engine, error, fault, runs, pipelineRuns, inflight,
                    invocations, buildLog, completed, remainderOut, prevOk >>

\* if (!fsSync.existsSync(uploadsDir)) { await fs.mkdir(uploadsDir); return }
CreateUploadsDir ==
    /\ proc = "pipeline"
    /\ pc = "startup"
    /\ ~rootExists
    /\ rootExists' = TRUE
    /\ pc' = "done"
    /\ UNCHANGED << trial, response, scanned, synth, root, proc, exitCode, videoFiles, vi, vj, engine, error, fault, runs,
                    pipelineRuns, inflight, invocations, buildLog, completed,
                    remainderOut, prevOk >>

\* readdir, filter; if (videoFiles.length === 0) return; else the asset loop starts
ScanUploads ==
    /\ proc = "pipeline"
    /\ pc = "startup"
    /\ rootExists
    /\ videoFiles' = ScanVideoFiles(root)
    /\ vi' = 1
    /\ scanned' = { n \in AllNames : existsSync(root[n].playlist) }
    /\ pc' = IF Len(ScanVideoFiles(root)) = 0 THEN "done" ELSE "video"
    /\ UNCHANGED << trial, response, synth, rootExists, root, proc, exitCode, vj, engine, error, fault, runs,
                    pipelineRuns, inflight, invocations, buildLog, completed,
                    remainderOut, prevOk >>

\* processVideo: if (allExist) return
SkipVideo ==
    /\ proc = "pipeline"
    /\ pc = "video"
    /\ vi <= Len(videoFiles)
    /\ AllExist(FsNow, baseName)
    /\ vi' = vi + 1
    /\ UNCHANGED << trial, response, scanned, synth, rootExists, root, proc, exitCode, pc, videoFiles, vj, engine, error,
                    fault, runs, pipelineRuns, inflight, invocations, buildLog, completed,
                    remainderOut, prevOk >>

\* processVideo: some variant is missing, the variant loop starts
EnterVideo ==
    /\ proc = "pipeline"
    /\ pc = "video"
    /\ vi <= Len(videoFiles)
    /\ ~AllExist(FsNow, baseName)
    /\ vj' = 1
    /\ pc' = "variant"
    /\ UNCHANGED << trial, response, scanned, synth, rootExists, root, proc, exitCode, videoFiles, vi, engine, error,
                    fault, runs, pipelineRuns, inflight, invocations, buildLog, completed,
                    remainderOut, prevOk >>

\* the asset loop is exhausted: processVideosOnStartup returns
AllProcessed ==
    /\ proc = "pipeline"
    /\ pc = "video"
    /\ vi > Len(videoFiles)
    /\ pc' = "done"
    /\ UNCHANGED << trial, response, scanned, synth, rootExists, root, proc, exitCode, videoFiles, vi, vj, engine, error,
                    fault, runs, pipelineRuns, inflight, invocations, buildLog, completed,
                    remainderOut, prevOk >>

\* the variant loop is exhausted: processVideo returns
FinishVideo ==
    /\ proc = "pipeline"
    /\ pc = "variant"
    /\ vj > NumVariants
    /\ vi' = vi + 1
    /\ pc' = "video"
    /\ UNCHANGED << trial, response, scanned, synth, rootExists, root, proc, exitCode, videoFiles, vj, engine, error,
                    fault, runs, pipelineRuns, inflight, invocations, buildLog, completed,
                    remainderOut, prevOk >>

\* else { console.log(`${variant.suffix} variant already exists, skipping...`) }
SkipVariant ==
    /\ proc = "pipeline"
    /\ pc = "variant"
    /\ vj <= NumVariants
    /\ Probe(FsNow, outputDir)
    /\ vj' = vj + 1
    /\ UNCHANGED << trial, response, scanned, synth, rootExists, root, proc, exitCode, pc, videoFiles, vi, engine, error,
                    fault, runs, pipelineRuns, inflight, invocations, buildLog, completed,
                    remainderOut, prevOk >>

\* createM3U8: ensure the directory, start the one segmenting invocation
StartNormal ==
    /\ proc = "pipeline"
    /\ pc = "variant"
    /\ vj <= NumVariants
    /\ ~Probe(FsNow, outputDir)
    /\ ~variant.fastStart
    /\ root' = mkdirIfAbsent(root, outputDir)
    /\ Invoke("hls", outputDir, VideoLength(videoFile), variant.duration)
    /\ buildLog' = << "hls" >>
    /\ pc' = "normal"
    /\ UNCHANGED << trial, response, scanned, synth, rootExists, proc, exitCode, videoFiles, vi, vj, error, fault, runs,
                    pipelineRuns, completed, remainderOut, prevOk >>

\* createM3U8: 'end' resolves with the playlist path; the next variant follows
NormalEnd ==
    /\ proc = "pipeline"
    /\ pc = "normal"
    /\ Resolved(engine)
    /\ completed' = completed \cup {outputDir}
    /\ engine' = NoEngine
    /\ vj' = vj + 1
    /\ pc' = "variant"
    /\ UNCHANGED << trial, response, scanned, synth, rootExists, root, proc, exitCode, videoFiles, vi, error, fault, runs,
                    pipelineRuns, inflight, invocations, buildLog, remainderOut, prevOk >>

\* createM3U8WithFastStart: ensure the directory, start the lead-in encode (step 1)
StartFastStart ==
    /\ proc = "pipeline"
    /\ pc = "variant"
    /\ vj <= NumVariants
    /\ ~Probe(FsNow, outputDir)
    /\ variant.fastStart
    /\ root' = mkdirIfAbsent(root, outputDir)
    /\ Invoke("leadin", outputDir, VideoLength(videoFile), variant.duration)
    /\ buildLog' = << "leadin" >>
    /\ pc' = "leadin"
    /\ UNCHANGED << trial, response, scanned, synth, rootExists, proc, exitCode, videoFiles, vi, vj, error, fault, runs,
                    pipelineRuns, completed, remainderOut, prevOk >>

\* the lead-in encode ended: start the remainder encode (step 2)
LeadInEnd ==
    /\ proc = "pipeline"
    /\ pc = "leadin"
    /\ Resolved(engine)
    /\ Invoke("remainder", outputDir, VideoLength(videoFile), variant.duration)
    /\ buildLog' = Append(buildLog, "remainder")
    /\ pc' = "remainder"
    /\ UNCHANGED << trial, response, scanned, synth, rootExists, root, proc, exitCode, videoFiles, vi, vj, error, fault,
                    runs, pipelineRuns, completed, remainderOut, prevOk >>

\* the remainder encode ended: read its playlist, write the synthesized one (step 3)
SynthesisOk ==
    /\ proc = "pipeline"
    /\ pc = "remainder"
    /\ Resolved(engine)
    /\ root[outputDir].playlist.type = "file"
    /\ root' = [root EXCEPT ![outputDir].playlist =
                   PlaylistFile(SynthesizePlaylist(@.lines, variant.duration))]
    /\ remainderOut' = [remainderOut EXCEPT ![outputDir] = root[outputDir].playlist.lines]
    /\ buildLog' = Append(buildLog, "synthesis")
    /\ completed' = completed \cup {outputDir}
    /\ engine' = NoEngine
    /\ vj' = vj + 1
    /\ pc' = "variant"
    /\ UNCHANGED << trial, response, scanned, synth, rootExists, proc, exitCode, videoFiles, vi, error, fault, runs,
                    pipelineRuns, inflight, invocations, prevOk >>

\* fsSync.readFileSync(playlistPath) throws: nothing is written
SynthesisReadFails ==
    /\ proc = "pipeline"
    /\ pc = "remainder"
    /\ Resolved(engine)
    /\ buildLog' = Append(buildLog, "synthesis")
    /\ fault' = [step |-> "read", dir |-> outputDir, inv |-> invocations]
    /\ Throw([step |-> "read", dir |-> outputDir])
    /\ engine' = NoEngine
    /\ UNCHANGED << trial, response, scanned, synth, rootExists, root, proc, exitCode, videoFiles, vi, runs, pipelineRuns,
                    inflight, invocations, completed, remainderOut, prevOk >>

\* the number of decimal digits of n
RECURSIVE Digits(_)
Digits(n) == IF n < 10 THEN 1 ELSE 1 + Digits(n \div 10)

RECURSIVE Pow10(_)
Pow10(e) == IF e = 0 THEN 1 ELSE 10 * Pow10(e - 1)

\* The number of characters of a line of newPlaylist as it is written:
\* '#EXTM3U', '#EXT-X-VERSION:3', '#EXT-X-TARGETDURATION:' + n,
\* '#EXT-X-MEDIA-SEQUENCE:0', '#EXTINF:' + toFixed(6) + ',', 'segmentNNN.ts',
\* '#EXT-X-ENDLIST'.
TextLen(line) ==
    CASE line.k = "EXTM3U" -> 7
      [] line.k = "VERSION" -> 15 + Digits(line.v)
      [] line.k = "TARGETDURATION" -> 22 + Digits(line.v)
      [] line.k = "MEDIASEQ" -> 22 + Digits(line.v)
      [] line.k = "EXTINF" -> 8 + Digits(line.v \div 1000000) + 8
      [] line.k = "segment" -> 13
      [] line.k = "ENDLIST" -> 14
      [] OTHER -> 1

\* The value, in millionths, of the first j characters of the six-decimal text
\* of v ("12.000000" cut to "1" reads 1, "0.500000" cut to "0." reads 0); -1
\* when no character of it is left.
CutNumber6(v, j) ==
    LET whole == v \div 1000000
        frac == v % 1000000
        m == Digits(whole)
    IN  IF j = 0 THEN -1
        ELSE IF j <= m THEN (whole \div Pow10(m - j)) * 1000000
        ELSE IF j = m + 1 THEN whole * 1000000
        ELSE whole * 1000000 + (frac \div Pow10(6 - (j - m - 1))) * Pow10(6 - (j - m - 1))

\* What a write that stops inside a line, after c of its characters, leaves of
\* it, as the code's line tests and a player read it:
\*  - a URI cut to 7 characters or more ("segment00") starts with 'segment' and
\*    names no segment file; cut shorter ("se") it fails the code's
\*    startsWith('segment') and is a URI to a player all the same;
\*  - a duration line cut after '#EXTINF:' still starts with '#EXTINF:', its
\*    value being what is left of the number (the trailing comma is lost);
\*  - a numeric tag cut inside its number is the same tag with a shorter
\*    number ('#EXT-X-TARGETDURATION:1' of ...:12);
\*  - any other cut tag is no tag the code or a player knows.
CutLine(line, c) ==
    CASE line.k = "segment" ->
            IF c >= 7 THEN Line("segment", -1) ELSE Line("uri", -1)
      [] line.k = "EXTINF" ->
            IF c < 8 THEN Line("cut", 0) ELSE Line("EXTINF", CutNumber6(line.v, c - 8))
      [] line.k \in {"VERSION", "TARGETDURATION", "MEDIASEQ"} ->
            LET name == TextLen(line) - Digits(line.v)
            IN  IF c <= name THEN Line("cut", 0)
                ELSE Line(line.k, line.v \div Pow10(Digits(line.v) - (c - name)))
      [] OTHER -> Line("cut", 0)

\* fsSync.writeFileSync(playlistPath, newPlaylist.join('\n')) writes in place,
\* at the canonical path: the file it leaves when it stops after k whole lines
\* of the new content and c characters of the next line.
PartlyWritten(lines, k, c) ==
    SubSeq(lines, 1, k) \o (IF c > 0 THEN << CutLine(lines[k + 1], c) >> ELSE <<>>)

\* every file a writeFileSync of lines that does not finish can leave, the
\* file having been opened (and emptied) for writing
PartialWrites(lines) ==
    UNION { { PartlyWritten(lines, k, c) : c \in 0..(TextLen(lines[k + 1]) - 1) } :
            k \in 0..(Len(lines) - 1) }

\* every file a writeFileSync of lines can have left when the process is stopped
\* before the build returns: a part of the content, or all of it (the write
\* returned, resolve() was not reached)
StoppedWrites(lines) == PartialWrites(lines) \cup { lines }

\* fsSync.writeFileSync(playlistPath) throws: the remainder playlist is left as
\* it was (the file could not be opened), or holds the part of the synthesized
\* playlist that was written before the failure
SynthesisWriteFails ==
    /\ proc = "pipeline"
    /\ pc = "remainder"
    /\ Resolved(engine)
    /\ root[outputDir].playlist.type = "file"
    /\ \/ root' = root
       \/ \E part \in PartialWrites(SynthesizePlaylist(root[outputDir].playlist.lines,
                                                         variant.duration)) :
             root' = [root EXCEPT ![outputDir].playlist = PlaylistFile(part)]
    /\ remainderOut' = [remainderOut EXCEPT ![outputDir] = root[outputDir].playlist.lines]
    /\ buildLog' = Append(buildLog, "synthesis")
    /\ fault' = [step |-> "write", dir |-> outputDir, inv |-> invocations]
    /\ Throw([step |-> "write", dir |-> outputDir])
    /\ engine' = NoEngine
    /\ UNCHANGED << trial, response, scanned, synth, rootExists, proc, exitCode, videoFiles, vi, runs, pipelineRuns,
                    inflight, invocations, completed, prevOk >>

\* a catch block that removes the output directory before it rethrows
BuildRejectedWithRollback ==
    /\ proc = "pipeline"
    /\ pc \in {"normal", "leadin", "remainder"}
    /\ Rejected(engine)
    /\ Throw([step |-> engine.kind, dir |-> engine.dir])
    /\ root' = [root EXCEPT ![engine.dir] = Absent]
    /\ engine' = NoEngine
    /\ UNCHANGED << trial, response, scanned, synth, rootExists, proc, exitCode, videoFiles, vi, fault, runs,
                    pipelineRuns, inflight, invocations, buildLog, completed,
                    remainderOut, prevOk >>

\* an engine invocation reported 'error': the build rejects with it
BuildRejected ==
    /\ proc = "pipeline"
    /\ pc \in {"normal", "leadin", "remainder"}
    /\ Rejected(engine)
    /\ Throw([step |-> engine.kind, dir |-> engine.dir])
    /\ engine' = NoEngine
    /\ UNCHANGED << trial, response, scanned, synth, rootExists, root, proc, exitCode, videoFiles, vi, fault, runs,
                    pipelineRuns, inflight, invocations, buildLog, completed,
                    remainderOut, prevOk >>

\* ----------------------------------------------------------- the server
\* processVideosOnStartup() called without await
PipelineNotAwaited == pc \in {"startup", "video", "variant", "normal", "leadin", "remainder", "done"}

\* await processVideosOnStartup() returned: app.listen(PORT) may be reached
PipelineReturned == pc = "done"

\* await processVideosOnStartup() threw: the catch block is reached
PipelineThrew == pc = "failed"

\* app.listen(PORT, ...)
Listen ==
    /\ proc = "pipeline"
    /\ PipelineReturned
    /\ proc' = "listening"
    /\ UNCHANGED << trial, response, scanned, synth, rootExists, root, exitCode, pc, videoFiles, vi, vj, engine, error,
                    fault, runs, pipelineRuns, inflight, invocations, buildLog, completed,
                    remainderOut, prevOk >>

\* catch (error) { console.error(...); process.exit(1) }
ExitOnFailure ==
    /\ proc = "pipeline"
    /\ PipelineThrew
    /\ proc' = "exited"
    /\ exitCode' = 1
    /\ UNCHANGED << trial, response, scanned, synth, rootExists, root, pc, videoFiles, vi, vj, engine, error, fault, runs,
                    pipelineRuns, inflight, invocations, buildLog, completed,
                    remainderOut, prevOk >>

\* The process is stopped from outside (a signal, a power cut), at any statement
\* of the run: startServer installs no handler and the builds write in place,
\* so the process and its engine child end where they stand and the files stay
\* as they are. Stopped inside the synthesis, between the remainder's end and
\* the build's return, it may have written a part of the new playlist, or all
\* of it.
ProcessKilled ==
    /\ proc \in {"starting", "pipeline"}
    /\ \/ root' = root /\ remainderOut' = remainderOut
       \/ /\ pc = "remainder"
          /\ Resolved(engine)
          /\ root[outputDir].playlist.type = "file"
          /\ \E part \in StoppedWrites(SynthesizePlaylist(root[outputDir].playlist.lines,
                                                            variant.duration)) :
                root' = [root EXCEPT ![outputDir].playlist = PlaylistFile(part)]
          /\ remainderOut' = [remainderOut EXCEPT ![outputDir] = root[outputDir].playlist.lines]
    /\ proc' = "killed"
    /\ engine' = NoEngine
    /\ inflight' = 0
    /\ UNCHANGED << trial, response, scanned, synth, rootExists, exitCode, pc, videoFiles, vi, vj, error, fault, runs,
                    pipelineRuns, invocations, buildLog, completed, prevOk >>

\* the server is started again on the uploads root as the last process left it
Restart ==
    /\ proc \in {"listening", "exited", "killed"}
    /\ runs < MaxRuns
    /\ runs' = runs + 1
    /\ prevOk' = (proc = "listening")
    /\ proc' = "starting"
    /\ exitCode' = 0
    /\ pc' = "idle"
    /\ videoFiles' = <<>>
    /\ vi' = 1
    /\ vj' = 1
    /\ engine' = NoEngine
    /\ error' = NoError
    /\ fault' = NoFault
    /\ pipelineRuns' = 0
    /\ invocations' = 0
    /\ buildLog' = <<>>
    /\ response' = NoResponse
    /\ scanned' = {}
    /\ UNCHANGED << trial, synth, rootExists, root, inflight, completed, remainderOut >>

\* ------------------------------------------------------- the listing API
\* ['.mp4', '.avi', '.mov', '.mkv', '.webm'] of app.get('/api/videos')
listingExtensions ==
    { mp4, mov, <<".", "a", "v", "i">>, <<".", "m", "k", "v">>,
      <<".", "w", "e", "b", "m">> }

\* the variants a video record has an hls_ key for, by suffix
listingSuffixes ==
    { <<"5", "0", "0", "m", "s">>, <<"1", "s">>, <<"4", "s">>, <<"8", "s">>,
      <<"1", "2", "s">> }

\* files.filter(file => [...].includes(path.extname(file).toLowerCase()))
IsListedFile(file) == toLowerCase(extname(file)) \in listingExtensions

\* { name, baseName, original, hls_<suffix>: `/videos/${baseName}_<suffix>/playlist.m3u8` }:
\* each URL is kept as the directory it names
VideoRecord(file) ==
    [ name |-> file,
      baseName |-> parseName(file),
      original |-> file,
      hls |-> [sfx \in listingSuffixes |-> parseName(file) \o <<"_">> \o sfx] ]

\* app.get('/api/videos')
GetApiVideos ==
    /\ proc = "listening"
    /\ response' =
          [ status |-> 200, kind |-> "videos",
            videos |-> IF rootExists
                       THEN LET listed == SelectSeq(readdir(root), IsListedFile)
                            IN  [i \in DOMAIN listed |-> VideoRecord(listed[i])]
                       ELSE <<>> ]
    /\ UNCHANGED << trial, rootExists, root, proc, exitCode, pc, videoFiles, vi, vj, engine,
                    error, fault, runs, pipelineRuns, inflight, invocations, buildLog,
                    completed, remainderOut, prevOk, scanned, synth >>

\* app.get('/api/videos/:videoName')
GetApiVideo ==
    /\ proc = "listening"
    /\ \E videoName \in {aMp4, bMOV} :
          response' =
              IF root[videoName].kind = "absent"
              THEN [status |-> 404, kind |-> "error", videos |-> <<>>]
              ELSE [status |-> 200, kind |-> "video", videos |-> << VideoRecord(videoName) >>]
    /\ UNCHANGED << trial, rootExists, root, proc, exitCode, pc, videoFiles, vi, vj, engine,
                    error, fault, runs, pipelineRuns, inflight, invocations, buildLog,
                    completed, remainderOut, prevOk, scanned, synth >>

Next ==
    \/ StartServer
    \/ CreateUploadsDir
    \/ ScanUploads
    \/ SkipVideo
    \/ EnterVideo
    \/ AllProcessed
    \/ FinishVideo
    \/ SkipVariant
    \/ StartNormal
    \/ NormalEnd
    \/ StartFastStart
    \/ LeadInEnd
    \/ SynthesisOk
    \/ SynthesisReadFails
    \/ SynthesisWriteFails
    \/ BuildRejected
    \/ EngineWriteSegment
    \/ EngineWritePlaylist
    \/ EngineEnd
    \/ EngineError
    \/ Listen
    \/ ExitOnFailure
    \/ ProcessKilled
    \/ Restart
    \/ GetApiVideos
    \/ GetApiVideo

Spec == Init /\ [][Next]_vars

\* ------------------------------------------- playlist synthesis taken alone
\* lines a remainder playlist handed to the synthesis may hold
SynthLines ==
    { Line("EXTM3U", 0), Line("EXTINF", toFixed6(500)), Line("segment", 1),
      Line("segment", 2), Line("ENDLIST", 0), Line("DISCONTINUITY", 0), Line("blank", 0) }

SynthInputs == UNION { [1..n -> SynthLines] : n \in 0..MaxLines }

CatalogDurations == { segmentVariants[j].duration : j \in 1..NumVariants }

InitSynth ==
    /\ rootExists = TRUE
    /\ root = EmptyRoot
    /\ remainderOut = NoRemainders
    /\ proc = "starting"
    /\ exitCode = 0
    /\ pc = "idle"
    /\ videoFiles = <<>>
    /\ vi = 1
    /\ vj = 1
    /\ engine = NoEngine
    /\ error = NoError
    /\ fault = NoFault
    /\ runs = 1
    /\ pipelineRuns = 0
    /\ inflight = 0
    /\ invocations = 0
    /\ buildLog = <<>>
    /\ completed = {}
    /\ prevOk = FALSE
    /\ response = NoResponse
    /\ scanned = {}
    /\ trial = NoTrial
    /\ \E lines \in SynthInputs, d \in CatalogDurations :
          synth = [phase |-> "read", lines |-> lines, d |-> d, out |-> <<>>]

\* const lines = playlistContent.split('\n'); ...; newPlaylist.join('\n')
RunSynthesis ==
    /\ synth.phase = "read"
    /\ synth' = [synth EXCEPT !.phase = "written",
                              !.out = SynthesizePlaylist(synth.lines, synth.d)]
    /\ UNCHANGED << trial, rootExists, root, proc, exitCode, pc, videoFiles, vi, vj, engine,
                    error, fault, runs, pipelineRuns, inflight, invocations, buildLog,
                    completed, remainderOut, prevOk, response, scanned >>

NextSynth == RunSynthesis

SpecSynth == InitSynth /\ [][NextSynth]_vars

\* ------------------------------------------------- one run of the pipeline
\* the steps of the code of processVideosOnStartup and of what it calls
PipelineStep ==
    \/ StartServer
    \/ CreateUploadsDir
    \/ ScanUploads
    \/ SkipVideo
    \/ EnterVideo
    \/ AllProcessed
    \/ FinishVideo
    \/ SkipVariant
    \/ StartNormal
    \/ NormalEnd
    \/ StartFastStart
    \/ LeadInEnd
    \/ SynthesisOk
    \/ SynthesisReadFails
    \/ SynthesisWriteFails
    \/ BuildRejected

\* an outstanding invocation reports 'end' or 'error'
EngineReports == EngineEnd \/ EngineError

EngineWrites == EngineWriteSegment \/ EngineWritePlaylist

NextRun == PipelineStep \/ EngineWrites \/ EngineReports

\* One run on each uploads root: the code runs on whenever it can (nothing in
\* it waits for anything but the engine), and every invocation reports.
SpecRun ==
    /\ Init
    /\ [][NextRun]_vars
    /\ WF_vars(PipelineStep)
    /\ WF_vars(EngineReports)

\* ------------------------------------------------- processVideo taken alone
\* a.mp4 with the variants of the set have complete
VariantRoot(have) ==
    [n \in AllNames |->
        IF n = aMp4 THEN RegularFile
        ELSE IF \E j \in have : n = aDir(j)
             THEN CompleteEntry(aMp4, CHOOSE j \in have : n = aDir(j))
             ELSE Absent]

\* for (const variant of segmentVariants) { if (!existsSync(playlistPath)) build }
\* from variant j on: the builds made, the filesystem left, and whether the
\* loop was left by a throw. The build of variant failAt rejects when it is
\* reached, with its directory made; every other build succeeds.
RECURSIVE VariantLoop(_, _, _, _)
VariantLoop(r, name, j, failAt) ==
    IF j > NumVariants THEN [builds |-> <<>>, fs |-> r, threw |-> FALSE]
    ELSE LET dir == outputDirOf(parseName(name), segmentVariants[j])
         IN  IF Probe(r, dir) THEN VariantLoop(r, name, j + 1, failAt)
             ELSE IF j = failAt
                  THEN [builds |-> << j >>, fs |-> mkdirIfAbsent(r, dir), threw |-> TRUE]
                  ELSE LET rest == VariantLoop([r EXCEPT ![dir] = CompleteEntry(name, j)],
                                               name, j + 1, failAt)
                       IN  [rest EXCEPT !.builds = << j >> \o @]

\* processVideo: if (allExist) return; else the variant loop
processVideo(r, name, failAt) ==
    IF AllExist(r, parseName(name))
    THEN [builds |-> <<>>, fs |-> r, threw |-> FALSE]
    ELSE VariantLoop(r, name, 1, failAt)

InitPre ==
    /\ rootExists = TRUE
    /\ root = EmptyRoot
    /\ remainderOut = NoRemainders
    /\ proc = "starting"
    /\ exitCode = 0
    /\ pc = "idle"
    /\ videoFiles = <<>>
    /\ vi = 1
    /\ vj = 1
    /\ engine = NoEngine
    /\ error = NoError
    /\ fault = NoFault
    /\ runs = 1
    /\ pipelineRuns = 0
    /\ inflight = 0
    /\ invocations = 0
    /\ buildLog = <<>>
    /\ completed = {}
    /\ prevOk = FALSE
    /\ response = NoResponse
    /\ scanned = {}
    /\ synth = NoSynth
    /\ \E have \in SUBSET (1..NumVariants), failAt \in 0..NumVariants :
          trial = [phase |-> "fs", have |-> have, failAt |-> failAt,
                   with |-> NoOutcome, alone |-> NoOutcome]

\* processVideo is run on the filesystem, and so is its variant loop alone
RunProcessVideo ==
    /\ trial.phase = "fs"
    /\ trial' = [trial EXCEPT
                    !.phase = "ran",
                    !.with = processVideo(VariantRoot(trial.have), aMp4, trial.failAt),
                    !.alone = VariantLoop(VariantRoot(trial.have), aMp4, 1, trial.failAt)]
    /\ UNCHANGED << rootExists, root, proc, exitCode, pc, videoFiles, vi, vj, engine,
                    error, fault, runs, pipelineRuns, inflight, invocations, buildLog,
                    completed, remainderOut, prevOk, response, scanned, synth >>

NextPre == RunProcessVideo

SpecPre == InitPre /\ [][NextPre]_vars

\* ================================================================ properties
\* no build is between its first step and its return
Quiescent == pc \notin {"normal", "leadin", "remainder"}

\* a step the running program takes: the process runs the pipeline before and
\* after it (not its being stopped from outside, nor the start that follows)
ProgramStep == proc = "pipeline" /\ proc' = "pipeline"

\* the output directories of the fast-start variants, with their durations
FastDirs ==
    { [dir |-> outputDirOf(BaseOrder[b], segmentVariants[j]),
       duration |-> segmentVariants[j].duration] :
         b \in DOMAIN BaseOrder,
         j \in { k \in 1..NumVariants : segmentVariants[k].fastStart } }

\* C1: a failed variant is never reported as complete: after a build failed the
\* probe of its variant returns false, and whenever no build is under way a
\* playlist exists only in directories whose build returned success.
C1_FailedVariantNeverComplete ==
    /\ (pc = "failed" /\ fault.step # "none") => ~Probe(root, fault.dir)
    /\ Quiescent => \A n \in AllNames : existsSync(root[n].playlist) => n \in completed

\* C2: idempotence: in a run that follows a run that returned success, no engine
\* invocation is started and nothing in the uploads root is written.
C2_SecondRunIdle ==
    [][prevOk => (root' = root /\ rootExists' = rootExists /\ invocations' = 0)]_vars

C2_Witness ==
    prevOk /\ proc = "listening" /\ Len(videoFiles) = 2 /\ completed # {}

\* C3: when processVideosOnStartup returns success, every selected asset has the
\* playlist of each of the 10 catalog variants.
C3_AllPlaylistsAfterSuccess ==
    pc = "done" =>
        \A i \in DOMAIN videoFiles : \A j \in 1..NumVariants :
            existsSync(root[outputDirOf(parseName(videoFiles[i]), segmentVariants[j])].playlist)

C3_Witness ==
    pc = "done" /\ Len(videoFiles) = 2 /\ invocations > 0 /\ NumVariants = 10

\* C4: the playlist of a fast-start variant whose build succeeded starts with a
\* duration entry of segmentDurationSeconds and the URI segment000.ts, and its
\* further URIs are the URIs of the remainder encode's playlist, in order,
\* which are segment001.ts, segment002.ts, ... without gap or repetition.
C4_FastStartUris ==
    \A f \in FastDirs :
        (f.dir \in completed /\ Quiescent) =>
            LET lines == root[f.dir].playlist.lines
                rest == Uris(remainderOut[f.dir])
            IN  /\ SelectSeq(lines, IsExtinf)[1].v = toFixed6(f.duration)
                /\ Uris(lines) = << 0 >> \o rest
                /\ rest = [i \in DOMAIN rest |-> i]

C4_Witness ==
    \E f \in FastDirs :
        /\ f.dir \in completed \ scanned
        /\ pc = "variant"
        /\ buildLog = << "leadin", "remainder", "synthesis" >>
        /\ Len(Uris(remainderOut[f.dir])) >= 3

\* C5: after the engine failed on the lead-in encode of a fast-start variant, the
\* variant has no playlist and neither the remainder encode nor the synthesis
\* was started for it.
C5_LeadInFailureLeavesNoPlaylist ==
    fault.step = "leadin" =>
        /\ ~existsSync(root[fault.dir].playlist)
        /\ buildLog = << "leadin" >>
        /\ invocations = fault.inv

C5_Witness ==
    fault.step = "leadin" /\ pc = "failed" /\ 0 \in root[fault.dir].segs

\* C6: once a build failed, the pipeline fails with that error and no engine
\* invocation is started afterwards in the run, for no variant and no asset.
C6_FailureAbortsRun ==
    fault.step # "none" =>
        /\ invocations = fault.inv
        /\ inflight = 0
        /\ pc \in {"normal", "leadin", "remainder", "failed"}
        /\ pc = "failed" => error = [step |-> fault.step, dir |-> fault.dir]

C6_Witness ==
    /\ fault.step # "none"
    /\ proc = "exited"
    /\ vi < Len(videoFiles)
    /\ vj < NumVariants

\* C7: at most one engine invocation is in progress at any moment.
C7_OneInvocationAtATime ==
    /\ inflight <= 1
    /\ (engine.status = "running") <=> (inflight = 1)

C7_Witness ==
    engine.status = "running" /\ engine.kind = "remainder" /\ invocations >= 2

\* C8: a fast-start variant whose directory exists without playlist.m3u8 is
\* built again from the lead-in encode, and a remainder encode runs only in a
\* build that began with the lead-in encode.
C8_PartialStateRebuilt ==
    /\ [][(/\ ProgramStep
           /\ pc = "variant"
           /\ vj <= NumVariants
           /\ variant.fastStart
           /\ root[outputDir].kind = "dir"
           /\ ~existsSync(root[outputDir].playlist))
          => (/\ pc' = "leadin"
              /\ engine'.kind = "leadin"
              /\ engine'.dir = outputDir
              /\ buildLog' = << "leadin" >>)]_vars
    /\ [](engine.kind = "remainder" => buildLog = << "leadin", "remainder" >>)

\* the remainder encode of a.mp4's 500ms_fast variant runs, in a build started
\* on the directory that held segment000.ts and no playlist
C8_Witness ==
    /\ root = PartialRoot
    /\ engine.kind = "remainder"
    /\ engine.status = "running"
    /\ engine.dir = aDir(2)
    /\ buildLog = << "leadin", "remainder" >>

\* C9: once a build succeeded, nothing in its output directory is changed and no
\* engine invocation targets it, in this run and in later runs, and every later
\* probe of it reports it complete.
C9_CompletedNeverTouched ==
    /\ [][\A n \in completed : root'[n] = root[n]]_vars
    /\ [](engine.status # "none" => engine.dir \notin completed)
    /\ []((pc = "variant" /\ vj <= NumVariants /\ outputDir \in completed)
            => Probe(root, outputDir))

C9_Witness ==
    runs = 2 /\ proc = "exited" /\ Cardinality(completed) >= 2

\* C10: a process calls the pipeline once; it listens only after the pipeline
\* returned success, and after a pipeline failure it exits with code 1 without
\* listening (or is stopped from outside before it exits: it never listens).
C10_ListenOnlyAfterPipeline ==
    /\ pipelineRuns <= 1
    /\ proc = "listening" => (pc = "done" /\ pipelineRuns = 1 /\ exitCode = 0)
    /\ proc = "exited" => (pc = "failed" /\ pipelineRuns = 1 /\ exitCode = 1)
    /\ pc = "failed" => proc \in {"pipeline", "exited", "killed"}

C10_Witness ==
    runs = 2 /\ ~prevOk /\ proc = "listening" /\ invocations > 0

\* the names of the uploads root that carry a video extension
VideoNames == { aMp4, aMov, bMOV, cMp4, eAvi, eMkv, eWebm, eFlv, eWmv }

\* the catalog's suffixes in catalog order
CatalogSuffixes ==
    << <<"5", "0", "0", "m", "s">>, <<"5", "0", "0", "m", "s", "_", "f", "a", "s", "t">>,
       <<"1", "s">>, <<"1", "s", "_", "f", "a", "s", "t">>,
       <<"4", "s">>, <<"4", "s", "_", "f", "a", "s", "t">>,
       <<"8", "s">>, <<"8", "s", "_", "f", "a", "s", "t">>,
       <<"1", "2", "s">>, <<"1", "2", "s", "_", "f", "a", "s", "t">> >>

\* ceil(segmentDurationSeconds) of the catalog entries, in seconds
CatalogCeil == << 1, 1, 1, 1, 4, 4, 8, 8, 12, 12 >>

\* every output directory of the model with the index of its variant
VariantDirs ==
    { [dir |-> BaseOrder[b] \o <<"_">> \o CatalogSuffixes[j], j |-> j] :
        b \in DOMAIN BaseOrder, j \in DOMAIN CatalogSuffixes }

\* the value of the first line of a playlist that carries tag k
TagValue(lines, k) ==
    lines[CHOOSE i \in DOMAIN lines :
             lines[i].k = k /\ \A h \in 1..(i - 1) : lines[h].k # k].v

HasTag(lines, k) == \E i \in DOMAIN lines : lines[i].k = k

\* C11: the scanner selects exactly the regular files of the root whose
\* extension is, case-insensitively, one of the seven video extensions; for an
\* entry with another extension and for a directory no output directory exists.
C11_ScannerSelection ==
    /\ pc \notin {"idle", "startup"} =>
          { videoFiles[i] : i \in DOMAIN videoFiles }
              = { n \in VideoNames : root[n].kind = "file" }
    /\ \A b \in { <<"c">>, <<"n">> } : \A j \in DOMAIN CatalogSuffixes :
          root[b \o <<"_">> \o CatalogSuffixes[j]].kind = "absent"

C11_Witness ==
    /\ pc = "variant"
    /\ videoFiles = << aMp4, bMOV >>
    /\ root[cMp4].kind = "dir"
    /\ root[nTxt].kind = "file"
    /\ vi = 2

\* C12: the completion probe reports a variant complete, so that it is skipped,
\* if and only if playlist.m3u8 exists at its path as a regular file.
C12_ProbeIffRegularFile ==
    [][(ProgramStep /\ pc = "variant" /\ vj <= NumVariants)
        => ((pc' = "variant" /\ vj' = vj + 1)
               <=> root[outputDir].playlist.type = "file")]_vars

\* C13: with no uploads root the run creates it and returns success at once;
\* with a root that holds no asset it returns success; in both cases without
\* an engine invocation and without creating anything in the root.
C13_NothingToDo ==
    /\ [][(ProgramStep /\ pc = "startup") =>
            /\ ~rootExists =>
                  (/\ rootExists'
                   /\ pc' = "done"
                   /\ root' = root
                   /\ videoFiles' = <<>>
                   /\ invocations' = 0)
            /\ (rootExists /\ \A n \in VideoNames : root[n].kind # "file") =>
                  (/\ rootExists'
                   /\ pc' = "done"
                   /\ root' = root
                   /\ videoFiles' = <<>>
                   /\ invocations' = 0)]_vars
    /\ []((pc = "done" /\ videoFiles = <<>>) =>
              (rootExists /\ invocations = 0 /\ inflight = 0))

C13_Witness ==
    runs = 1 /\ proc = "listening" /\ rootExists /\ root = EmptyRoot

\* the variant was built, with success, since the scan of the current run
BuiltInThisRun(dir) ==
    pc \notin {"idle", "startup"} /\ dir \in completed \ scanned

\* C14 as claimed: the playlist a successful build leaves for any variant has
\* EXT-X-TARGETDURATION ceil(segmentDurationSeconds) and EXT-X-MEDIA-SEQUENCE 0.
C14_HeaderOfEveryVariant ==
    \A v \in VariantDirs :
        (BuiltInThisRun(v.dir) /\ Quiescent /\ root[v.dir].playlist.type = "file") =>
            /\ TagValue(root[v.dir].playlist.lines, "TARGETDURATION") = CatalogCeil[v.j]
            /\ TagValue(root[v.dir].playlist.lines, "MEDIASEQ") = 0

\* C14 as amended: the playlist a successful build leaves for a fast-start
\* variant has EXT-X-TARGETDURATION ceil(segmentDurationSeconds) and
\* EXT-X-MEDIA-SEQUENCE 0; the playlist of a normal variant is the engine's,
\* with EXT-X-MEDIA-SEQUENCE 0.
C14_HeaderOfFastStart ==
    \A v \in VariantDirs :
        (BuiltInThisRun(v.dir) /\ Quiescent /\ root[v.dir].playlist.type = "file") =>
            /\ TagValue(root[v.dir].playlist.lines, "MEDIASEQ") = 0
            /\ v.j % 2 = 0 =>
                  TagValue(root[v.dir].playlist.lines, "TARGETDURATION") = CatalogCeil[v.j]

C14_Witness ==
    /\ runs = 1
    /\ pc = "done"
    /\ BuiltInThisRun(aDir(2))
    /\ TagValue(root[aDir(2)].playlist.lines, "TARGETDURATION") = 1
    /\ BuiltInThisRun(aDir(5))
    /\ TagValue(root[aDir(5)].playlist.lines, "TARGETDURATION") = 2

\* C15: a build is started for the asset and the variant the loops stand at,
\* normal for the odd catalog entries and fast-start for the even ones; the
\* variant index runs up the catalog and the asset index up the scan result,
\* which lists the assets in the order readdir gave them.
C15_BuildOrder ==
    /\ [][/\ (pc = "variant" /\ pc' \in {"normal", "leadin"}) =>
                /\ engine'.dir = parseName(videoFiles[vi]) \o <<"_">> \o CatalogSuffixes[vj]
                /\ engine'.kind = (IF vj % 2 = 0 THEN "leadin" ELSE "hls")
                /\ pc' = (IF vj % 2 = 0 THEN "leadin" ELSE "normal")
          /\ vj' # vj => (vj' = vj + 1 \/ vj' = 1)
          /\ vi' # vi => (vi' = vi + 1 \/ (vi' = 1 /\ pc' \in {"idle", "video", "done"}))]_vars
    /\ [](\A i, k \in DOMAIN videoFiles :
             i < k => \E p, q \in DOMAIN SourceOrder :
                         p < q /\ SourceOrder[p] = videoFiles[i] /\ SourceOrder[q] = videoFiles[k])

C15_Witness ==
    pc = "leadin" /\ engine.status = "running" /\ vi = 2 /\ vj = 10

\* C16: every video record of the listing endpoints has a playlist URL for each
\* of the 10 variants, /videos/{baseName}_{suffix}/playlist.m3u8.
C16_ListingHasTenVariants ==
    response.kind \in {"videos", "video"} =>
        \A i \in DOMAIN response.videos :
            { response.videos[i].hls[k] : k \in DOMAIN response.videos[i].hls }
                = { response.videos[i].baseName \o <<"_">> \o CatalogSuffixes[j] :
                      j \in DOMAIN CatalogSuffixes }

\* C17: a build is hls alone, or lead-in, remainder, synthesis in this order;
\* the remainder encode runs only after the lead-in encode ended well and the
\* synthesis only after the remainder encode ended well; an engine invocation
\* is started at the start of a build and at the end of a lead-in encode and
\* nowhere else, so a successful normal build makes one and a successful
\* fast-start build two.
C17_LinearBuild ==
    /\ [](buildLog \in { <<>>, << "hls" >>, << "leadin" >>, << "leadin", "remainder" >>,
                         << "leadin", "remainder", "synthesis" >> })
    /\ [](engine.kind = "remainder" =>
              (0 \in root[engine.dir].segs /\ fault.step # "leadin"))
    /\ [](Len(buildLog) = 3 => fault.step \notin {"leadin", "remainder"})
    /\ [][/\ invocations' # invocations =>
                \/ invocations' = 0 /\ proc' = "starting"
                \/ /\ invocations' = invocations + 1
                   /\ \/ pc = "variant" /\ pc' \in {"normal", "leadin"}
                      \/ pc = "leadin" /\ pc' = "remainder"
          /\ completed' # completed =>
                /\ pc' = "variant"
                /\ \/ pc = "normal" /\ buildLog' = << "hls" >>
                   \/ pc = "remainder" /\ buildLog' = << "leadin", "remainder", "synthesis" >>]_vars

C17_Witness ==
    /\ pc = "variant"
    /\ buildLog = << "leadin", "remainder", "synthesis" >>
    /\ fault.step = "none"
    /\ invocations = 3
    /\ runs = 1

\* index of the first duration-tag line of a playlist, one past its end without
FirstDurationTag(lines) ==
    IF HasTag(lines, "EXTINF")
    THEN CHOOSE i \in DOMAIN lines :
            lines[i].k = "EXTINF" /\ \A h \in 1..(i - 1) : lines[h].k # "EXTINF"
    ELSE Len(lines) + 1

\* C18: between the lead-in pair and the end-list tag the synthesized playlist
\* holds exactly the duration-tag and segment-URI lines of the remainder
\* playlist from its first duration tag on, in order and unchanged.
C18_CollectedLines ==
    synth.phase = "written" =>
        SubSeq(synth.out, 7, Len(synth.out) - 1)
            = SelectSeq(SubSeq(synth.lines, FirstDurationTag(synth.lines), Len(synth.lines)),
                        LAMBDA l : l.k \in {"EXTINF", "segment"})

C18_Witness ==
    /\ synth.phase = "written"
    /\ synth.lines = << Line("segment", 1), Line("EXTINF", toFixed6(500)),
                        Line("DISCONTINUITY", 0), Line("segment", 2) >>
    /\ SubSeq(synth.out, 7, Len(synth.out) - 1)
          = << Line("EXTINF", toFixed6(500)), Line("segment", 2) >>

\* C19: a synthesized playlist is the four header lines, the lead-in pair, the
\* collected lines and the end-list tag; each header tag and the end-list tag
\* occurs once, whatever the remainder playlist held.
C19_SynthesizedShape ==
    synth.phase = "written" =>
        LET out == synth.out
            ceil == CASE synth.d = 500 -> 1 [] synth.d = 1000 -> 1 [] OTHER -> synth.d \div 1000
        IN  /\ SubSeq(out, 1, 6) =
                  << Line("EXTM3U", 0), Line("VERSION", 3), Line("TARGETDURATION", ceil),
                     Line("MEDIASEQ", 0), Line("EXTINF", synth.d * 1000), Line("segment", 0) >>
            /\ out[Len(out)] = Line("ENDLIST", 0)
            /\ \A t \in {"EXTM3U", "VERSION", "TARGETDURATION", "MEDIASEQ", "ENDLIST"} :
                  Cardinality({ i \in DOMAIN out : out[i].k = t }) = 1

C19_Witness ==
    /\ synth.phase = "written"
    /\ synth.d = 500
    /\ synth.lines = << Line("EXTINF", toFixed6(500)), Line("segment", 1),
                        Line("EXTM3U", 0), Line("ENDLIST", 0) >>

\* C20: a build starts only for a variant whose playlist is absent at that
\* moment; a variant, or an asset with all its variants, whose playlists exist
\* when its turn comes is skipped, also when they were created earlier in the
\* same run.
C20_ProbeAtBuildTime ==
    [][/\ (pc = "variant" /\ pc' \in {"normal", "leadin"}) =>
             ~existsSync(root[engine'.dir].playlist)
       /\ (ProgramStep /\ pc = "variant" /\ vj <= NumVariants /\ existsSync(root[outputDir].playlist)) =>
             (pc' = "variant" /\ vj' = vj + 1 /\ invocations' = invocations /\ root' = root)
       /\ (/\ ProgramStep
           /\ pc = "video"
           /\ vi <= Len(videoFiles)
           /\ \A j \in DOMAIN CatalogSuffixes :
                 existsSync(root[parseName(videoFiles[vi]) \o <<"_">> \o CatalogSuffixes[j]].playlist))
          => (vi' = vi + 1 /\ invocations' = invocations /\ root' = root)]_vars

C20_Witness ==
    /\ runs = 1
    /\ videoFiles = << aMov, aMp4 >>
    /\ scanned = {}
    /\ vi = 3
    /\ invocations = 15

\* C21: two different (asset, variant) pairs of a scan have different output
\* directories.
C21_DisjointOutputDirs ==
    \A i, k \in DOMAIN videoFiles : \A j, l \in DOMAIN CatalogSuffixes :
        (i # k \/ j # l) =>
            parseName(videoFiles[i]) \o <<"_">> \o CatalogSuffixes[j]
                # parseName(videoFiles[k]) \o <<"_">> \o CatalogSuffixes[l]

\* C22: no step removes an entry of the root or a segment file, a step changes
\* at most one entry, the step that reports or throws a failure changes nothing
\* outside the failed variant's directory, and after a failed build the
\* directory is there, with the lead-in segment when the failure came after the
\* lead-in encode.
C22_NoRollback ==
    /\ [][/\ \A n \in AllNames :
                /\ root[n].kind # "absent" => root'[n].kind = root[n].kind
                /\ root[n].segs \subseteq root'[n].segs
          /\ Cardinality({ n \in AllNames : root'[n] # root[n] }) <= 1
          /\ (fault' # fault /\ fault'.step # "none") =>
                \A n \in AllNames : n # fault'.dir => root'[n] = root[n]
          /\ (pc # "failed" /\ pc' = "failed") =>
                \A n \in AllNames : n # error'.dir => root'[n] = root[n]]_vars
    /\ [](pc = "failed" =>
             /\ root[error.dir].kind = "dir"
             /\ error.step \in {"remainder", "read", "write"} => 0 \in root[error.dir].segs)

C22_Witness ==
    /\ pc = "failed"
    /\ error.step = "remainder"
    /\ root[error.dir].segs = {0, 1}
    /\ root[error.dir].playlist.type = "file"

\* C23: in every state, the states inside a build and the states a failed or
\* stopped build leaves included, every segment URI listed in a playlist.m3u8
\* names a segment file that exists in the directory of the playlist. The
\* builds write the playlist in place at its canonical path: a synthesis write
\* that stops inside a URI line leaves a playlist whose last URI names no file.
C23_ListedSegmentsExist ==
    \A n \in AllNames :
        root[n].playlist.type = "file" =>
            \A i \in DOMAIN root[n].playlist.lines :
                root[n].playlist.lines[i].k \in {"segment", "uri"} =>
                    root[n].playlist.lines[i].v \in root[n].segs

\* C24: a run whose invocations all report returns or fails; it has returned
\* or failed only with no invocation outstanding; while an invocation is
\* outstanding the run does nothing but wait for its report (the only steps are
\* the engine's: a report, or one more file written on the way to it); after a
\* failure no further invocation is started.
C24_RunTerminates ==
    /\ (pc = "startup") ~> (pc \in {"done", "failed"})
    /\ [](pc \in {"done", "failed"} => (inflight = 0 /\ engine.status # "running"))
    /\ [][engine.status = "running" =>
            /\ \/ engine'.status \in {"end", "error"}
               \/ /\ engine'.status = "running"
                  /\ engine'.n + engine'.listed = engine.n + engine.listed + 1
            /\ pc' = pc /\ vi' = vi /\ vj' = vj
            /\ invocations' = invocations]_vars
    /\ [][fault.step # "none" => (invocations' = invocations /\ pc' \in {pc, "failed"})]_vars

C24_Witness ==
    /\ pc = "done"
    /\ videoFiles = << aMp4 >>
    /\ invocations = 15
    /\ inflight = 0

\* C25: on every filesystem processVideo, with its pre-check, makes the builds
\* its variant loop alone makes, in the same order, and leaves the same
\* filesystem.
C25_PreCheckChangesNothing ==
    trial.phase = "ran" =>
        /\ trial.with.builds = trial.alone.builds
        /\ trial.with.fs = trial.alone.fs
        /\ trial.with.threw = trial.alone.threw

C25_Witness ==
    /\ trial.phase = "ran"
    /\ trial.have = 1..10
    /\ trial.with.builds = <<>>
    /\ trial.alone.fs = VariantRoot(1..10)

\* the source entries of the uploads root: what was placed there
SourceNames == VideoNames \cup { nTxt }

\* C26: in every run the scanner's selection is the set of the video files
\* placed in the uploads root; no output directory is ever selected, and no
\* step of the pipeline changes a source entry.
C26_OutputNeverIngested ==
    /\ [](\A i \in DOMAIN videoFiles : \A v \in VariantDirs : videoFiles[i] # v.dir)
    /\ [](pc \notin {"idle", "startup"} =>
             { videoFiles[i] : i \in DOMAIN videoFiles }
                 = { n \in SourceNames : root[n].kind = "file" } \ { nTxt })
    /\ [][\A n \in SourceNames : root'[n] = root[n]]_vars

C26_Witness ==
    /\ runs = 2
    /\ prevOk
    /\ pc = "done"
    /\ videoFiles = << aMp4 >>
    /\ \A j \in DOMAIN CatalogSuffixes : root[aDir(j)].kind = "dir"

\* C27: in the playlist of a fast-start variant built with success no listed
\* segment duration is above the declared target duration,
\* ceil(segmentDurationSeconds).
C27_DurationsWithinTarget ==
    \A v \in VariantDirs :
        (/\ v.j % 2 = 0
         /\ BuiltInThisRun(v.dir)
         /\ Quiescent
         /\ root[v.dir].playlist.type = "file") =>
            \A i \in DOMAIN root[v.dir].playlist.lines :
                root[v.dir].playlist.lines[i].k = "EXTINF" =>
                    root[v.dir].playlist.lines[i].v <= CatalogCeil[v.j] * 1000000

\* C28: the names in the response of GET /api/videos are the assets the
\* scanner selected in the run that brought the server up.
C28_ListingAgreesWithScanner ==
    response.kind = "videos" =>
        { response.videos[i].name : i \in DOMAIN response.videos }
            = { videoFiles[i] : i \in DOMAIN videoFiles }

====
